---------------------------- MODULE Spec2Model ----------------------------
(***************************************************************************)
(* Model of eclipse_make_restart.py: the restart-point resolver            *)
(* (determine_restart_id), the deck rewriter (update_data_file) and the    *)
(* command-line driver (__main__).                                         *)
(*                                                                         *)
(* Text is modelled as a sequence of tokens.  A token is one character     *)
(* ("\n", " ", "/", a digit, a letter of a case name), the two-character   *)
(* comment marker "--", a deck keyword, or "x" for any other run of        *)
(* characters that contains none of the former.  A file is one token       *)
(* sequence; a line is the token sequence up to and including its "\n".    *)
(***************************************************************************)
EXTENDS Integers, Sequences, FiniteSets, TLC

\* ------------------------------------------------------------------ bounds
\* greatest number of directive blocks of a generated well-shaped deck
MaxBlocks == 4
\* greatest number of lines of a generated free-form deck
MaxLines == 4
\* greatest length of a case name
MaxNameLen == 2

\* ------------------------------------------------------------------ text
NL == "\n"
SP == " "
DASHES == "--"

\* the identifier the rewriter is given in the rewriter-only specifications
NewId == <<"0", "0", "0", "7">>
\* an identifier left in the deck by an earlier run
OldId == <<"0", "0", "0", "3">>
\* the case name used in the rewriter-only specifications
CaseC == <<"C">>

RECURSIVE Concat(_)
\* file.writelines(new_data): the elements written one after the other
Concat(ls) == IF ls = <<>> THEN <<>> ELSE Head(ls) \o Concat(Tail(ls))

RECURSIVE SplitFrom(_, _)
\* the lines of a text, cur being the part of the current line already read
SplitFrom(text, cur) ==
    IF text = <<>>
    THEN IF cur = <<>> THEN <<>> ELSE <<cur>>
    ELSE IF Head(text) = NL
         THEN <<Append(cur, NL)>> \o SplitFrom(Tail(text), <<>>)
         ELSE SplitFrom(Tail(text), Append(cur, Head(text)))

\* iterating over an open text file: one element per line, "\n" kept
SplitLines(text) == SplitFrom(text, <<>>)

\* str.startswith(kw) for a keyword token
startswith(line, kw) == line /= <<>> /\ line[1] = kw

RECURSIVE SkipSpaces(_)
SkipSpaces(s) == IF s /= <<>> /\ Head(s) = SP THEN SkipSpaces(Tail(s)) ELSE s

\* re.search(r'^-- *INCLUDE', line)
IsCommentedInclude(line) ==
    /\ startswith(line, DASHES)
    /\ startswith(SkipSpaces(Tail(line)), "INCLUDE")

\* ' {basename:s} {id:s} /\n'.format(basename=basename, id=id)
ParamLine(b, i) == <<SP>> \o b \o <<SP>> \o i \o <<SP, "/", NL>>

RestartLine == <<"RESTART", NL>>
BlankLine == <<NL>>
\* the single list element 'SKIPREST\n\n'
SkiprestElem == <<"SKIPREST", NL, NL>>

\* a file that does not exist, and an existing file with its content
NoFile == [ex |-> FALSE, text |-> <<>>]
File(text) == [ex |-> TRUE, text |-> text]

\* ------------------------------------------------------------------ state
VARIABLES
    argv,          \* the positional argument NAME[.DATA]
    restore,       \* args.restore
    backup,        \* args.backup
    basename,      \* the base name the program works with
    id,            \* the identifier returned by determine_restart_id
    caseName,      \* the base name the files of the directory carry
    xfiles,        \* digit fields d of the existing files {caseName}.X{d}
    sfiles,        \* digit fields d of the existing files {caseName}.S{d}
    data,          \* the file {caseName}.DATA
    bak,           \* the file {caseName}.DATA.BACKUP
    data0,         \* {caseName}.DATA when the program was started
    bak0,          \* {caseName}.DATA.BACKUP when the program was started
    pc,            \* position of the program
    deck,          \* the lines of the open data_file
    pos,           \* index in deck of the next line the file object returns
    in_solution, in_schedule, restart_updated, found_restart,
    found_skiprest, found_include, found_commented_include,
    new_data,      \* the list new_data
    origin,        \* for each element of new_data, the index of the input
                   \* line it stands for, 0 for a generated element
    fired,         \* the rules that fired while the last line was processed
    pass,          \* 1 in the first rewrite, 2 in the rewrite of its output
    first_out      \* the text written by the first rewrite

mainVars == <<argv, restore, backup, basename, id, caseName, xfiles, sfiles,
              data, bak, data0, bak0>>
flagVars == <<in_solution, in_schedule, restart_updated, found_restart,
              found_skiprest, found_include, found_commented_include>>
scanVars == <<deck, pos, new_data, origin, fired>>
vars == <<mainVars, pc, flagVars, scanVars, pass, first_out>>

\* ------------------------------------------------------------------ rewriter
\* readline that returns the next line and leaves it to be read again
ReadLine_Peek(r) ==
    IF r.p <= Len(r.deck)
    THEN [r EXCEPT !.line = r.deck[r.p], !.lineorg = r.p]
    ELSE [r EXCEPT !.line = <<>>, !.lineorg = 0]

\* data_file.readline(): the next line, '' at the end of the file
ReadLine(r) ==
    IF r.p <= Len(r.deck)
    THEN [r EXCEPT !.line = r.deck[r.p], !.lineorg = r.p, !.p = r.p + 1]
    ELSE [r EXCEPT !.line = <<>>, !.lineorg = 0]

\* new_data.append(elem)
Emit(r, elem, org) ==
    [r EXCEPT !.out = Append(r.out, elem), !.org = Append(r.org, org)]

\* Keywords whose SOLUTION branch leaves the two INCLUDE flags as they are
Keywords_SolutionKeepsInclude(r) ==
    IF startswith(r.line, "SOLUTION")
    THEN [r EXCEPT !.in_solution = TRUE,
                   !.restart_updated = FALSE,
                   !.found_restart = FALSE]
    ELSE IF startswith(r.line, "SUMMARY")
    THEN [r EXCEPT !.in_solution = FALSE]
    ELSE IF startswith(r.line, "SCHEDULE")
    THEN [r EXCEPT !.in_schedule = TRUE,
                   !.in_solution = FALSE,
                   !.found_skiprest = FALSE,
                   !.found_include = FALSE,
                   !.found_commented_include = FALSE]
    ELSE IF startswith(r.line, "RESTART")
    THEN [r EXCEPT !.found_restart = TRUE]
    ELSE IF startswith(r.line, "INCLUDE")
    THEN [r EXCEPT !.found_include = TRUE]
    ELSE IF IsCommentedInclude(r.line)
    THEN [r EXCEPT !.found_commented_include = TRUE]
    ELSE r

\* Keywords whose SCHEDULE branch leaves found_skiprest as it is
Keywords_ScheduleKeepsSkiprest(r) ==
    IF startswith(r.line, "SOLUTION")
    THEN [r EXCEPT !.in_solution = TRUE,
                   !.restart_updated = FALSE,
                   !.found_restart = FALSE,
                   !.found_include = FALSE,
                   !.found_commented_include = FALSE]
    ELSE IF startswith(r.line, "SUMMARY")
    THEN [r EXCEPT !.in_solution = FALSE]
    ELSE IF startswith(r.line, "SCHEDULE")
    THEN [r EXCEPT !.in_schedule = TRUE,
                   !.in_solution = FALSE,
                   !.found_include = FALSE,
                   !.found_commented_include = FALSE]
    ELSE IF startswith(r.line, "RESTART")
    THEN [r EXCEPT !.found_restart = TRUE]
    ELSE IF startswith(r.line, "INCLUDE")
    THEN [r EXCEPT !.found_include = TRUE]
    ELSE IF IsCommentedInclude(r.line)
    THEN [r EXCEPT !.found_commented_include = TRUE]
    ELSE r

\* the if/elif chain on the keyword the line begins with
Keywords(r) ==
    IF startswith(r.line, "SOLUTION")
    THEN [r EXCEPT !.in_solution = TRUE,
                   !.restart_updated = FALSE,
                   !.found_restart = FALSE,
                   !.found_include = FALSE,
                   !.found_commented_include = FALSE]
    ELSE IF startswith(r.line, "SUMMARY")
    THEN [r EXCEPT !.in_solution = FALSE]
    ELSE IF startswith(r.line, "SCHEDULE")
    THEN [r EXCEPT !.in_schedule = TRUE,
                   !.in_solution = FALSE,
                   !.found_skiprest = FALSE,
                   !.found_include = FALSE,
                   !.found_commented_include = FALSE]
    ELSE IF startswith(r.line, "RESTART")
    THEN [r EXCEPT !.found_restart = TRUE]
    ELSE IF startswith(r.line, "INCLUDE")
    THEN [r EXCEPT !.found_include = TRUE]
    ELSE IF IsCommentedInclude(r.line)
    THEN [r EXCEPT !.found_commented_include = TRUE]
    ELSE r

\* InsertRestart that does not mark the directive as up to date
InsertRestart_NotUpdated(r) ==
    IF r.in_solution /\ (r.found_include \/ r.found_commented_include)
       /\ ~r.found_restart
    THEN [Emit(Emit(Emit(r, RestartLine, 0), ParamLine(r.basename, r.id), 0),
               BlankLine, 0)
          EXCEPT !.found_restart = TRUE,
                 !.fired = @ \cup {"insert_restart"}]
    ELSE r

\* InsertRestart without the blank line that ends the block
InsertRestart_NoBlank(r) ==
    IF r.in_solution /\ (r.found_include \/ r.found_commented_include)
       /\ ~r.found_restart
    THEN [Emit(Emit(r, RestartLine, 0), ParamLine(r.basename, r.id), 0)
          EXCEPT !.found_restart = TRUE,
                 !.restart_updated = TRUE,
                 !.fired = @ \cup {"insert_restart"}]
    ELSE r

\* InsertRestart that does not ask whether the scan is in SOLUTION
InsertRestart_AnySection(r) ==
    IF (r.found_include \/ r.found_commented_include) /\ ~r.found_restart
    THEN [Emit(Emit(Emit(r, RestartLine, 0), ParamLine(r.basename, r.id), 0),
               BlankLine, 0)
          EXCEPT !.found_restart = TRUE,
                 !.restart_updated = TRUE,
                 !.fired = @ \cup {"insert_restart"}]
    ELSE r

\* 2) Add RESTART lines between SOLUTION and INCLUDE, if not already there
InsertRestart(r) ==
    IF r.in_solution /\ (r.found_include \/ r.found_commented_include)
       /\ ~r.found_restart
    THEN [Emit(Emit(Emit(r, RestartLine, 0), ParamLine(r.basename, r.id), 0),
               BlankLine, 0)
          EXCEPT !.found_restart = TRUE,
                 !.restart_updated = TRUE,
                 !.fired = @ \cup {"insert_restart"}]
    ELSE r

\* UpdateRestart that forgets to append the RESTART line
UpdateRestart_DropLine(r) ==
    IF r.found_restart /\ ~r.restart_updated
    THEN LET b == ReadLine(r)
         IN  [b EXCEPT !.line = ParamLine(r.basename, r.id),
                       !.restart_updated = TRUE,
                       !.fired = @ \cup {"update_restart"}]
    ELSE r

\* 3) If RESTART already there: just update number
UpdateRestart(r) ==
    IF r.found_restart /\ ~r.restart_updated
    THEN LET a == Emit(r, r.line, r.lineorg)
             b == ReadLine(a)
         IN  [b EXCEPT !.line = ParamLine(r.basename, r.id),
                       !.restart_updated = TRUE,
                       !.fired = @ \cup {"update_restart"}]
    ELSE r

\* CommentInclude that does not record that the block was commented
CommentInclude_NoFlag(r) ==
    IF r.in_solution /\ r.found_include /\ ~r.found_commented_include
    THEN LET a == Emit(r, <<DASHES>> \o r.line, r.lineorg)
             b == ReadLine(a)
         IN  [b EXCEPT !.line = <<DASHES>> \o b.line,
                       !.fired = @ \cup {"comment_include"}]
    ELSE r

\* 4) comment out INCLUDE in solution (if not already done)
CommentInclude(r) ==
    IF r.in_solution /\ r.found_include /\ ~r.found_commented_include
    THEN LET a == Emit(r, <<DASHES>> \o r.line, r.lineorg)
             b == ReadLine(a)
         IN  [b EXCEPT !.line = <<DASHES>> \o b.line,
                       !.found_commented_include = TRUE,
                       !.fired = @ \cup {"comment_include"}]
    ELSE r

\* InsertSkiprest that does not record that the block was inserted
InsertSkiprest_NoFlag(r) ==
    IF r.in_schedule /\ r.found_include /\ ~r.found_skiprest
    THEN [Emit(r, SkiprestElem, 0)
          EXCEPT !.fired = @ \cup {"insert_skiprest"}]
    ELSE r

\* 5) Add SKIPREST to SCHEDULE section if not already there
InsertSkiprest(r) ==
    IF r.in_schedule /\ r.found_include /\ ~r.found_skiprest
    THEN [Emit(r, SkiprestElem, 0)
          EXCEPT !.found_skiprest = TRUE,
                 !.fired = @ \cup {"insert_skiprest"}]
    ELSE r

\* the body of the loop "for line in data_file" for one line: the keyword
\* chain, the rules 2) to 5) in the order of the code, new_data.append(line)
LoopBody(r) ==
    CHOOSE res \in
        { Emit(r5, r5.line, r5.lineorg) : r5 \in
        { InsertSkiprest(r4) : r4 \in
        { CommentInclude(r3) : r3 \in
        { UpdateRestart(r2) : r2 \in
        { InsertRestart(r1) : r1 \in { Keywords(r) } } } } } } : TRUE

\* Fetch that leaves the read position on the line it fetched
Fetch_NoAdvance ==
    [deck |-> deck, p |-> pos, line |-> deck[pos], lineorg |-> pos,
     basename |-> basename, id |-> id,
     in_solution |-> in_solution, in_schedule |-> in_schedule,
     restart_updated |-> restart_updated, found_restart |-> found_restart,
     found_skiprest |-> found_skiprest, found_include |-> found_include,
     found_commented_include |-> found_commented_include,
     out |-> new_data, org |-> origin, fired |-> {}]

\* the local state of update_data_file as a record, the line at pos fetched
Fetch ==
    [deck |-> deck, p |-> pos + 1, line |-> deck[pos], lineorg |-> pos,
     basename |-> basename, id |-> id,
     in_solution |-> in_solution, in_schedule |-> in_schedule,
     restart_updated |-> restart_updated, found_restart |-> found_restart,
     found_skiprest |-> found_skiprest, found_include |-> found_include,
     found_commented_include |-> found_commented_include,
     out |-> new_data, org |-> origin, fired |-> {}]

\* one iteration of the loop of update_data_file
ScanLine ==
    /\ pc = "scan"
    /\ pos <= Len(deck)
    /\ \E r \in { LoopBody(Fetch) } :
           /\ pos' = r.p
           /\ in_solution' = r.in_solution
           /\ in_schedule' = r.in_schedule
           /\ restart_updated' = r.restart_updated
           /\ found_restart' = r.found_restart
           /\ found_skiprest' = r.found_skiprest
           /\ found_include' = r.found_include
           /\ found_commented_include' = r.found_commented_include
           /\ new_data' = r.out
           /\ origin' = r.org
           /\ fired' = r.fired
    /\ UNCHANGED <<mainVars, pc, deck, pass, first_out>>

\* the loop ends at the end of the file; return new_data
Return ==
    /\ pc = "scan"
    /\ pos > Len(deck)
    /\ pc' = "returned"
    /\ UNCHANGED <<mainVars, flagVars, scanVars, pass, first_out>>

\* the flags and the list as update_data_file sets them before the loop
ResetScan(lines) ==
    /\ deck' = lines
    /\ pos' = 1
    /\ in_solution' = FALSE
    /\ in_schedule' = FALSE
    /\ restart_updated' = FALSE
    /\ found_restart' = FALSE
    /\ found_skiprest' = FALSE
    /\ found_include' = FALSE
    /\ found_commented_include' = FALSE
    /\ new_data' = <<>>
    /\ origin' = <<>>
    /\ fired' = {}

\* the returned list is written to the deck file and the rewriter is run on
\* that file again with the same identifier
Rerun ==
    /\ pc = "returned"
    /\ pass = 1
    /\ pass' = 2
    /\ first_out' = Concat(new_data)
    /\ data' = File(Concat(new_data))
    /\ ResetScan(SplitLines(Concat(new_data)))
    /\ pc' = "scan"
    /\ UNCHANGED <<argv, restore, backup, basename, id, caseName, xfiles,
                   sfiles, bak, data0, bak0>>

\* ------------------------------------------------------------------ files
DotData == <<".", "D", "A", "T", "A">>

\* str.endswith(suffix)
endswith(s, suffix) ==
    /\ Len(s) >= Len(suffix)
    /\ SubSeq(s, Len(s) - Len(suffix) + 1, Len(s)) = suffix

RECURSIVE rstrip(_, _)
\* str.rstrip(chars): trailing characters that are in the set chars removed
rstrip(s, chars) ==
    IF s /= <<>> /\ s[Len(s)] \in chars
    THEN rstrip(SubSeq(s, 1, Len(s) - 1), chars)
    ELSE s

\* the characters of the string ".DATA"
CharsOf(str) == { str[k] : k \in 1..Len(str) }

\* remove .DATA suffix from basename, if present
StripDataSuffix(arg) ==
    IF endswith(arg, DotData) THEN rstrip(arg, CharsOf(DotData)) ELSE arg

Digits == {"0", "1", "2", "3", "4", "5", "6", "7", "8", "9"}

\* code points of the characters of a file name
Ord(c) ==
    CASE c = "." -> 46
      [] c = "0" -> 48 [] c = "1" -> 49 [] c = "2" -> 50 [] c = "3" -> 51
      [] c = "4" -> 52 [] c = "5" -> 53 [] c = "6" -> 54 [] c = "7" -> 55
      [] c = "8" -> 56 [] c = "9" -> 57
      [] c = "A" -> 65 [] c = "C" -> 67 [] c = "D" -> 68 [] c = "S" -> 83
      [] c = "T" -> 84 [] c = "X" -> 88

RECURSIVE StrLeq(_, _)
\* a <= b for Python strings
StrLeq(a, b) ==
    IF a = <<>> THEN TRUE
    ELSE IF b = <<>> THEN FALSE
    ELSE IF Head(a) = Head(b) THEN StrLeq(Tail(a), Tail(b))
    ELSE Ord(Head(a)) < Ord(Head(b))

RECURSIVE Sorted(_)
\* list.sort() of the names in S
Sorted(S) ==
    IF S = {} THEN <<>>
    ELSE LET m == CHOOSE x \in S : \A y \in S : StrLeq(x, y)
         IN  <<m>> \o Sorted(S \ {m})

\* the names of the files {caseName}.X{d} and {caseName}.S{d}
XName(b, d) == b \o <<".", "X">> \o d
SName(b, d) == b \o <<".", "S">> \o d

\* glob('{basename}.X[0-9][0-9][0-9][0-9]')
GlobX(b) ==
    { XName(caseName, d) : d \in { e \in xfiles :
        /\ b = caseName
        /\ Len(e) = 4
        /\ \A k \in 1..Len(e) : e[k] \in Digits } }

\* os.path.exists(name) for a name of the form {b}.S{d}
ExistsS(b, d) == b = caseName /\ d \in sfiles

\* re.search(r'\.X([0-9]{4})$', x_filename).group(1)
LastFour(name) == SubSeq(name, Len(name) - 3, Len(name))

\* determine_restart_id that takes the first name of the sorted list
determine_restart_id_First(b) ==
    LET xs == Sorted(GlobX(b))
    IN  IF Len(xs) = 0
        THEN [fatal |-> TRUE, id |-> <<>>]
        ELSE LET x_filename == xs[1]
                 i == LastFour(x_filename)
             IN  IF ~ExistsS(b, i)
                 THEN [fatal |-> TRUE, id |-> <<>>]
                 ELSE [fatal |-> FALSE, id |-> i]

\* determine_restart_id that does not look for the companion file
determine_restart_id_NoCompanion(b) ==
    LET xs == Sorted(GlobX(b))
    IN  IF Len(xs) = 0
        THEN [fatal |-> TRUE, id |-> <<>>]
        ELSE [fatal |-> FALSE, id |-> LastFour(xs[Len(xs)])]

\* the outcome of determine_restart_id(b): an identifier or the fatal exit
determine_restart_id(b) ==
    LET xs == Sorted(GlobX(b))
    IN  IF Len(xs) = 0
        THEN [fatal |-> TRUE, id |-> <<>>]
        ELSE LET x_filename == xs[Len(xs)]
                 i == LastFour(x_filename)
             IN  IF ~ExistsS(b, i)
                 THEN [fatal |-> TRUE, id |-> <<>>]
                 ELSE [fatal |-> FALSE, id |-> i]

\* the file {b}.DATA and the file {b}.DATA.BACKUP as the program sees them
DataFile(b) == IF b = caseName THEN data ELSE NoFile
BackupFile(b) == IF b = caseName THEN bak ELSE NoFile

\* ------------------------------------------------------------------ main
rewriterVars == <<flagVars, scanVars, pass, first_out>>

\* parse the arguments and remove the .DATA suffix from the base name
ParseArgs ==
    /\ pc = "start"
    /\ basename' = StripDataSuffix(argv)
    /\ pc' = IF restore THEN "restore" ELSE "resolve"
    /\ UNCHANGED <<argv, restore, backup, id, caseName, xfiles, sfiles,
                   data, bak, data0, bak0, rewriterVars>>

\* Restore with the arguments of copyfile swapped
Restore_Swapped ==
    /\ pc = "restore"
    /\ IF DataFile(basename).ex
       THEN /\ bak' = File(DataFile(basename).text)
            /\ pc' = "resolve"
       ELSE /\ bak' = bak
            /\ pc' = "crash_restore"
    /\ UNCHANGED <<argv, restore, backup, basename, id, caseName, xfiles,
                   sfiles, data, data0, bak0, rewriterVars>>

\* shutil.copyfile(backup_filename, data_filename)
Restore ==
    /\ pc = "restore"
    /\ IF BackupFile(basename).ex
       THEN /\ data' = File(BackupFile(basename).text)
            /\ pc' = "resolve"
       ELSE /\ data' = data
            /\ pc' = "crash_restore"
    /\ UNCHANGED <<argv, restore, backup, basename, id, caseName, xfiles,
                   sfiles, bak, data0, bak0, rewriterVars>>

\* id = determine_restart_id(basename)
DetermineRestartId ==
    /\ pc = "resolve"
    /\ LET r == determine_restart_id(basename)
       IN  IF r.fatal
           THEN /\ pc' = "exit1"
                /\ id' = id
           ELSE /\ pc' = "open"
                /\ id' = r.id
    /\ UNCHANGED <<argv, restore, backup, basename, caseName, xfiles,
                   sfiles, data, bak, data0, bak0, rewriterVars>>

\* update_data_file up to the loop: open the deck file, reset the flags
OpenDataFile ==
    /\ pc = "open"
    /\ IF DataFile(basename).ex
       THEN /\ pc' = "scan"
            /\ ResetScan(SplitLines(DataFile(basename).text))
       ELSE /\ pc' = "crash_open"
            /\ UNCHANGED <<flagVars, scanVars>>
    /\ UNCHANGED <<mainVars, pass, first_out>>

\* create backup-file, if requested: shutil.move(data_filename, backup_filename)
Backup ==
    /\ pc = "returned"
    /\ backup
    /\ bak' = data
    /\ data' = NoFile
    /\ pc' = "write"
    /\ UNCHANGED <<argv, restore, backup, basename, id, caseName, xfiles,
                   sfiles, data0, bak0, rewriterVars>>

\* WriteData that does not wait for the backup to be made
WriteData_SkipsBackup ==
    /\ pc \in {"returned", "write"}
    /\ data' = File(Concat(new_data))
    /\ pc' = "done"
    /\ UNCHANGED <<argv, restore, backup, basename, id, caseName, xfiles,
                   sfiles, bak, data0, bak0, rewriterVars>>

\* write new data to file
WriteData ==
    /\ \/ pc = "returned" /\ ~backup
       \/ pc = "write"
    /\ data' = File(Concat(new_data))
    /\ pc' = "done"
    /\ UNCHANGED <<argv, restore, backup, basename, id, caseName, xfiles,
                   sfiles, bak, data0, bak0, rewriterVars>>

\* case names
NameChars == {"C", "A"}
Names == UNION { [1..n -> NameChars] : n \in 1..MaxNameLen }

\* digit fields of the files {caseName}.X* and {caseName}.S* of a directory
XPool == { <<"0", "0", "0", "0">>, <<"0", "0", "0", "3">>,
           <<"0", "0", "1", "2">>, <<"0", "9", "9">> }
SPool == { <<"0", "0", "0", "3">>, <<"0", "0", "1", "2">> }

\* deck files of a directory
DeckA == Concat(<< <<"SOLUTION", NL>>, <<"INCLUDE", NL>>, <<"x", NL>>,
                   <<"SCHEDULE", NL>>, <<"INCLUDE", NL>>, <<"x", NL>> >>)
DeckB == Concat(<< <<"SOLUTION", NL>>, RestartLine, ParamLine(CaseC, OldId),
                   <<"SCHEDULE", NL>> >>)

Init ==
    /\ caseName \in Names
    /\ argv \in {caseName, caseName \o DotData}
    /\ restore \in BOOLEAN /\ backup \in BOOLEAN
    /\ basename = <<>> /\ id = <<>>
    /\ xfiles \in SUBSET XPool /\ sfiles \in SUBSET SPool
    /\ data \in {NoFile, File(DeckA)}
    /\ bak \in {NoFile, File(DeckB)}
    /\ data0 = data /\ bak0 = bak
    /\ pc = "start"
    /\ deck = <<>> /\ pos = 1
    /\ in_solution = FALSE /\ in_schedule = FALSE
    /\ restart_updated = FALSE /\ found_restart = FALSE
    /\ found_skiprest = FALSE /\ found_include = FALSE
    /\ found_commented_include = FALSE
    /\ new_data = <<>> /\ origin = <<>> /\ fired = {}
    /\ pass = 1 /\ first_out = <<>>

Next ==
    \/ ParseArgs
    \/ Restore
    \/ DetermineRestartId
    \/ OpenDataFile
    \/ ScanLine
    \/ Return
    \/ Backup
    \/ WriteData

\* one run of the program in a directory that holds the files of one case
Spec == Init /\ [][Next]_vars

\* ------------------------------------------------------------------ decks
\* directive blocks of a deck that respects the two-line directive shape
ArgLine == <<"x", NL>>
Blocks ==
    { <<<<"SOLUTION", NL>>>>,
      <<<<"SUMMARY", NL>>>>,
      <<<<"SCHEDULE", NL>>>>,
      <<<<"INCLUDE", NL>>, ArgLine>>,
      <<RestartLine, ParamLine(CaseC, OldId)>>,
      <<<<DASHES, "INCLUDE", NL>>, <<DASHES, "x", NL>>>>,
      <<<<"x", NL>>>> }

BlockSeqs == UNION { [1..n -> Blocks] : n \in 0..MaxBlocks }

\* the state of a process that is about to enter the loop on a deck file
InitRewriter(text) ==
    /\ argv = CaseC /\ restore = FALSE /\ backup = FALSE
    /\ basename = CaseC /\ id = NewId /\ caseName = CaseC
    /\ xfiles = {NewId} /\ sfiles = {NewId}
    /\ data = File(text)
    /\ bak = NoFile
    /\ data0 = data /\ bak0 = bak
    /\ pc = "scan"
    /\ deck = SplitLines(text) /\ pos = 1
    /\ in_solution = FALSE /\ in_schedule = FALSE
    /\ restart_updated = FALSE /\ found_restart = FALSE
    /\ found_skiprest = FALSE /\ found_include = FALSE
    /\ found_commented_include = FALSE
    /\ new_data = <<>> /\ origin = <<>> /\ fired = {}
    /\ pass = 1 /\ first_out = <<>>

InitDeck == \E bs \in BlockSeqs : InitRewriter(Concat(Concat(bs)))

NextDeck == ScanLine \/ Return \/ Rerun

\* the rewriter run twice over decks of the two-line directive shape
SpecDeck == InitDeck /\ [][NextDeck]_vars


\* lines of a deck that need not respect the two-line directive shape
LineKinds ==
    { <<"SOLUTION", NL>>, <<"SUMMARY", NL>>, <<"SCHEDULE", NL>>,
      RestartLine, <<"INCLUDE", NL>>, <<DASHES, SP, "INCLUDE", NL>>,
      <<"x", NL>> }

LineSeqs == UNION { [1..n -> LineKinds] : n \in 0..MaxLines }

\* a text without its last character
ButLast(text) == IF text = <<>> THEN <<>> ELSE SubSeq(text, 1, Len(text) - 1)

\* free-form decks, the last line with or without its "\n"
InitLines ==
    \E ls \in LineSeqs : \E nl \in BOOLEAN :
        InitRewriter(IF nl THEN Concat(ls) ELSE ButLast(Concat(ls)))

NextLines == ScanLine \/ Return

\* one rewrite of a free-form deck
SpecLines == InitLines /\ [][NextLines]_vars

\* the same, the process keeps running while it can take a step
SpecLinesFair == SpecLines /\ WF_vars(NextLines)

\* ------------------------------------------------------------------ sections
IsSectionLine(l) ==
    startswith(l, "SOLUTION") \/ startswith(l, "SUMMARY")
        \/ startswith(l, "SCHEDULE")

\* the index of the section keyword line that opens the section of line i
SecStart(i) ==
    LET S == { j \in 1..i : IsSectionLine(deck[j]) }
    IN  IF S = {} THEN 0 ELSE CHOOSE j \in S : \A h \in S : h <= j

InSection(i, kw) == SecStart(i) /= 0 /\ startswith(deck[SecStart(i)], kw)

\* the indices of the elements of new_data that stand for input line m
OutIdxs(m) == { k \in 1..Len(origin) : origin[k] = m }
OutIdx(m) == CHOOSE k \in OutIdxs(m) : TRUE

\* the elements of new_data that stand for an input line, in order
RECURSIVE InputOrigins(_)
InputOrigins(o) ==
    IF o = <<>> THEN <<>>
    ELSE IF Head(o) = 0 THEN InputOrigins(Tail(o))
         ELSE <<Head(o)>> \o InputOrigins(Tail(o))

Returned(n) == pc = "returned" /\ pass = n

\* ------------------------------------------------------------------ C1
\* C1: rewriting the output of a rewrite again with the same identifier
\* yields exactly the same text as the first rewrite (idempotence).
C1_Idempotent == Returned(2) => Concat(new_data) = first_out

\* ------------------------------------------------------------------ C2
\* first uncommented INCLUDE lines of a SOLUTION section without RESTART line
FreshIncludes ==
    { i \in 1..Len(deck) :
        /\ startswith(deck[i], "INCLUDE")
        /\ InSection(i, "SOLUTION")
        /\ \A j \in 1..Len(deck) :
              SecStart(j) = SecStart(i) => ~startswith(deck[j], "RESTART")
        /\ \A j \in 1..(i - 1) :
              SecStart(j) = SecStart(i) => ~startswith(deck[j], "INCLUDE") }

\* first INCLUDE lines of a SCHEDULE section that follows line i
LaterScheduleIncludes(i) ==
    { j \in (i + 1)..Len(deck) :
        /\ startswith(deck[j], "INCLUDE")
        /\ InSection(j, "SCHEDULE")
        /\ \A h \in 1..(j - 1) :
              SecStart(h) = SecStart(j) => ~startswith(deck[h], "INCLUDE") }

\* the RESTART block stands right before the element of INCLUDE line i, and
\* line i and its argument line are emitted with the prefix "--"
FreshInserted(i) ==
    /\ OutIdxs(i) /= {} /\ OutIdxs(i + 1) /= {}
    /\ LET k == OutIdx(i)
       IN  /\ k > 3
           /\ new_data[k - 3] = RestartLine /\ origin[k - 3] = 0
           /\ new_data[k - 2] = ParamLine(basename, id)
           /\ new_data[k - 1] = BlankLine
           /\ new_data[k] = <<DASHES>> \o deck[i]
    /\ new_data[OutIdx(i + 1)] = <<DASHES>> \o deck[i + 1]

SkiprestBefore(j) ==
    /\ OutIdxs(j) /= {}
    /\ OutIdx(j) > 1
    /\ new_data[OutIdx(j) - 1] = SkiprestElem

\* every input line outside the set T is emitted once, unchanged, in order
OthersUnchanged(T) ==
    /\ InputOrigins(origin) = [m \in 1..Len(deck) |-> m]
    /\ \A m \in (1..Len(deck)) \ T : new_data[OutIdx(m)] = deck[m]

FreshInsertionOn(F) ==
    /\ \A i \in F : FreshInserted(i)
    /\ \A i \in F : \A j \in LaterScheduleIncludes(i) : SkiprestBefore(j)
    /\ F /= {} => OthersUnchanged(F \cup { i + 1 : i \in F })

\* C2 as stated: in a deck whose SOLUTION section holds an uncommented
\* INCLUDE block and no RESTART line, the RESTART block is inserted right
\* before the INCLUDE line, the INCLUDE block is commented, SKIPREST is put
\* before the INCLUDE of a later SCHEDULE section, all else is unchanged.
C2_FreshInsertion_Stated == Returned(1) => FreshInsertionOn(FreshIncludes)

NoRestartLine == \A j \in 1..Len(deck) : ~startswith(deck[j], "RESTART")

\* the fresh INCLUDE lines that no commented INCLUDE line precedes in the
\* section
UncommentedFresh ==
    { i \in FreshIncludes :
        \A j \in 1..(i - 1) :
            SecStart(j) = SecStart(i) => ~IsCommentedInclude(deck[j]) }

\* C2 (amended): the statement of C2 for decks with no RESTART line at all,
\* about the SOLUTION sections in which no commented INCLUDE line precedes
\* the INCLUDE line.
C2_FreshInsertion ==
    (Returned(1) /\ NoRestartLine) => FreshInsertionOn(UncommentedFresh)

C2_Witness ==
    /\ Returned(1) /\ NoRestartLine
    /\ \E i \in UncommentedFresh : LaterScheduleIncludes(i) /= {}

\* ------------------------------------------------------------------ C3
\* the lines of the section of line i
SectionOf(i) == { j \in 1..Len(deck) : SecStart(j) = SecStart(i) }

\* RESTART lines of a SOLUTION section that holds no other RESTART line
SolutionRestarts ==
    { i \in 1..(Len(deck) - 1) :
        /\ startswith(deck[i], "RESTART")
        /\ InSection(i, "SOLUTION")
        /\ \A j \in SectionOf(i) : startswith(deck[j], "RESTART") => j = i }

\* the elements of new_data emitted while the scan was in the section of
\* line i: those between the element of its keyword line and the element of
\* the next section keyword line
SectionElems(i) ==
    LET first == OutIdx(SecStart(i))
        after == { k \in 1..Len(origin) :
                     origin[k] /= 0 /\ origin[k] > i
                       /\ SecStart(origin[k]) /= SecStart(i) }
    IN  { k \in first..Len(new_data) : \A a \in after : k < a }

\* C3: a RESTART directive that stands in a SOLUTION section, before or
\* after the INCLUDE lines of the section, is the only RESTART directive of
\* that section in the output, stands where it stood, and carries the new
\* identifier.
C3_UpdateExisting ==
    Returned(1) =>
        \A i \in SolutionRestarts :
            /\ new_data[OutIdx(i)] = RestartLine
            /\ OutIdx(i + 1) = OutIdx(i) + 1
            /\ new_data[OutIdx(i + 1)] = ParamLine(basename, id)
            /\ \A k \in SectionElems(i) :
                  startswith(new_data[k], "RESTART") => k = OutIdx(i)

\* ------------------------------------------------------------------ C4
GeneratedElems == { RestartLine, ParamLine(basename, id), BlankLine,
                    SkiprestElem }

\* line m is an INCLUDE line of a SOLUTION section or the line after one
IncludeBlockInSolution(m) ==
    \/ startswith(deck[m], "INCLUDE") /\ InSection(m, "SOLUTION")
    \/ m > 1 /\ startswith(deck[m - 1], "INCLUDE")
             /\ InSection(m - 1, "SOLUTION")

\* C4: without the generated elements the output has the lines of the input,
\* in order, each identical to its input line except the parameter line
\* after a RESTART line (replaced by the generated one) and the INCLUDE
\* block of a SOLUTION section (prefixed with "--").
C4_Frame ==
    pc = "returned" =>
        /\ InputOrigins(origin) = [m \in 1..Len(deck) |-> m]
        /\ \A k \in 1..Len(new_data) :
              IF origin[k] = 0
              THEN new_data[k] \in GeneratedElems
              ELSE LET m == origin[k]
                   IN  \/ new_data[k] = deck[m]
                       \/ /\ new_data[k] = ParamLine(basename, id)
                          /\ m > 1 /\ startswith(deck[m - 1], "RESTART")
                       \/ /\ new_data[k] = <<DASHES>> \o deck[m]
                          /\ IncludeBlockInSolution(m)

\* a rewrite that updated a RESTART directive, commented an INCLUDE block
\* and inserted SKIPREST has returned
C4_Witness ==
    /\ Returned(1)
    /\ \E k \in 1..Len(new_data) :
          origin[k] /= 0 /\ new_data[k] /= deck[origin[k]]
            /\ new_data[k] = ParamLine(basename, id)
    /\ \E k \in 1..Len(new_data) :
          origin[k] /= 0 /\ new_data[k] = <<DASHES>> \o deck[origin[k]]
    /\ \E k \in 1..Len(new_data) : new_data[k] = SkiprestElem

\* ------------------------------------------------------------------ C5
\* the identifiers iiii of the primary artifacts {basename}.Xiiii
PrimaryIds ==
    IF basename = caseName
    THEN { d \in xfiles : Len(d) = 4 /\ \A k \in 1..4 : d[k] \in Digits }
    ELSE {}

\* the identifiers iiii of the companion artifacts {basename}.Siiii
CompanionIds == IF basename = caseName THEN sfiles ELSE {}

RECURSIVE NumVal(_)
\* the number a digit string denotes
NumVal(d) ==
    IF d = <<>> THEN 0
    ELSE 10 * NumVal(SubSeq(d, 1, Len(d) - 1)) + (Ord(d[Len(d)]) - Ord("0"))

GreatestId ==
    CHOOSE d \in PrimaryIds : \A e \in PrimaryIds : NumVal(e) <= NumVal(d)

\* determine_restart_id has ended, by returning or by the fatal exit
ResolverEnded == pc \notin {"start", "restore", "resolve", "crash_restore"}
ResolverReturned == ResolverEnded /\ pc /= "exit1"

\* C5: when primary artifacts exist and the companion of the numerically
\* greatest one exists, determine_restart_id returns that identifier as the
\* four-character string of the file name.
C5_GreatestId ==
    (ResolverEnded /\ PrimaryIds /= {} /\ GreatestId \in CompanionIds) =>
        /\ pc /= "exit1"
        /\ id = GreatestId
        /\ Len(id) = 4

\* the resolver returned 0012 (leading zeros kept) out of several artifacts
C5_Witness ==
    /\ pc = "open"
    /\ Cardinality(PrimaryIds) >= 3
    /\ id = <<"0", "0", "1", "2">>

\* ------------------------------------------------------------------ C6
\* C6: determine_restart_id ends in the fatal exit exactly when there is no
\* primary artifact or the companion of the greatest one is missing; an
\* identifier it returns is the greatest one and has its companion.
C6_FatalExactly ==
    /\ pc = "exit1" <=>
          (ResolverEnded /\ (PrimaryIds = {} \/ GreatestId \notin CompanionIds))
    /\ ResolverReturned => (id = GreatestId /\ id \in CompanionIds)

\* fatal although a smaller identifier has both of its files
C6_Witness ==
    /\ pc = "exit1"
    /\ PrimaryIds /= {}
    /\ GreatestId \notin CompanionIds
    /\ \E d \in PrimaryIds : d \in CompanionIds

\* ------------------------------------------------------------------ C7
\* C7 as stated: after a fatal resolver condition the deck file is as it was
\* when the program was started, whatever the options.
C7_DeckUntouched_Stated == pc = "exit1" => data = data0

\* C7 (amended): after a fatal resolver condition the deck file is as it was
\* when the program was started if --restore was not given, and holds the
\* content of the backup file if --restore was given; the backup file is
\* unchanged.
C7_DeckOnFatal ==
    pc = "exit1" =>
        /\ ~restore => data = data0
        /\ restore => (bak0.ex /\ data = File(bak0.text))
        /\ bak = bak0

\* fatal exits with --restore and without it, --backup given
C7_Witness ==
    /\ pc = "exit1" /\ backup
    /\ restore /\ data0.ex /\ data /= data0

\* ------------------------------------------------------------------ C10
\* C10: the argument N.DATA gives the base name N: only the five-character
\* suffix is removed.
C10_SuffixOnly ==
    (pc /= "start" /\ argv = caseName \o DotData) => basename = caseName

\* ------------------------------------------------------------------ C8
NoSolutionLine == \A j \in 1..Len(deck) : ~startswith(deck[j], "SOLUTION")

\* C8: on a deck with no SOLUTION line the rewriter inserts no RESTART
\* block and always has a next step until it has returned.
C8_NoSolutionNoRestart ==
    NoSolutionLine =>
        /\ "insert_restart" \notin fired
        /\ \A k \in 1..Len(new_data) :
              origin[k] = 0 => ~startswith(new_data[k], "RESTART")
        /\ pc = "scan" => ENABLED NextLines

\* a deck without SOLUTION line, with INCLUDE lines, rewritten to the end
C8_Witness ==
    /\ pc = "returned" /\ NoSolutionLine
    /\ \E j \in 1..Len(deck) : startswith(deck[j], "INCLUDE")
    /\ \E j \in 1..Len(deck) : IsCommentedInclude(deck[j])

\* ------------------------------------------------------------------ C9
\* C9: every iteration of the loop consumes at least one line, and the
\* rewriter returns.
C9_Terminates ==
    /\ [][pc = "scan" => (pos' > pos \/ pc' = "returned")]_vars
    /\ <>(pc = "returned")

\* the lookahead read past the end of the file and the rewriter returned
C9_Witness ==
    /\ pc = "returned"
    /\ Len(deck) > 0
    /\ Len(origin) > 0 /\ origin[Len(origin)] = 0
    /\ \/ startswith(deck[Len(deck)], "RESTART")
       \/ startswith(deck[Len(deck)], "INCLUDE")

\* ------------------------------------------------------------------ all decks
\* decks of the two-line directive shape and free-form decks, each rewritten
\* twice
\* decks that begin with directive blocks and go on with free-form lines
InitMixed ==
    \E bs \in UNION { [1..n -> Blocks] : n \in 0..(MaxBlocks \div 2) } :
    \E ls \in UNION { [1..n -> LineKinds] : n \in 0..(MaxLines \div 2) } :
        InitRewriter(Concat(Concat(bs)) \o Concat(ls))

InitAny == InitDeck \/ InitLines \/ InitMixed

SpecAny == InitAny /\ [][NextDeck]_vars

IsKeywordLine(l) ==
    IsSectionLine(l) \/ startswith(l, "RESTART") \/ startswith(l, "INCLUDE")

\* the two-line directive shape: every RESTART line and every INCLUDE line
\* is followed by a line that begins with no keyword
WellShaped ==
    \A i \in 1..Len(deck) :
        (startswith(deck[i], "RESTART") \/ startswith(deck[i], "INCLUDE")) =>
            (i < Len(deck) /\ ~IsKeywordLine(deck[i + 1]))

\* ------------------------------------------------------------------ C11
\* C11: the scan is in at most one of the contexts SOLUTION and SCHEDULE.
C11_ExclusiveContexts == ~(in_solution /\ in_schedule)

\* ------------------------------------------------------------------ C12
\* the input line that was being emitted when element k was generated: the
\* origin of the first later element that stands for an input line, or 0
LineAfter(k) ==
    LET K == { h \in (k + 1)..Len(origin) : origin[h] /= 0 }
    IN  IF K = {} THEN 0
        ELSE origin[CHOOSE h \in K : \A g \in K : h <= g]

\* the SKIPREST elements emitted among the lines of the section opened by
\* the keyword line s
SkiprestsOf(s) ==
    { k \in 1..Len(new_data) :
        /\ origin[k] = 0 /\ new_data[k] = SkiprestElem
        /\ LineAfter(k) /= 0 /\ SecStart(LineAfter(k)) = s }

IncludesOf(s) ==
    { j \in 1..Len(deck) : SecStart(j) = s /\ startswith(deck[j], "INCLUDE") }

ScheduleStarts ==
    { s \in 1..Len(deck) : startswith(deck[s], "SCHEDULE") }

\* one SKIPREST element right before the first INCLUDE line of each SCHEDULE
\* section that has one, none in a SCHEDULE section that has none
SkiprestOncePerSection ==
    \A s \in ScheduleStarts :
        IF IncludesOf(s) = {}
        THEN SkiprestsOf(s) = {}
        ELSE LET j == CHOOSE i \in IncludesOf(s) :
                          \A h \in IncludesOf(s) : i <= h
             IN  /\ OutIdxs(j) /= {}
                 /\ SkiprestsOf(s) = { OutIdx(j) - 1 }

\* C12 as stated: for every deck, each SCHEDULE section gets the SKIPREST
\* block exactly once, right before its first INCLUDE line, if it has an
\* INCLUDE line, and none otherwise.
C12_SkiprestOnce_Stated == pc = "returned" => SkiprestOncePerSection

\* C12 (amended): the same for every deck that respects the two-line
\* directive shape.
C12_SkiprestOnce ==
    (pc = "returned" /\ WellShaped) => SkiprestOncePerSection

\* a SCHEDULE section with two INCLUDE lines and one without any, rewritten
C12_Witness ==
    /\ pc = "returned" /\ WellShaped
    /\ \E s \in ScheduleStarts : Cardinality(IncludesOf(s)) >= 2
    /\ \E s \in ScheduleStarts :
          IncludesOf(s) = {} /\ \E j \in 1..Len(deck) : j > s

\* ------------------------------------------------------------------ C13
IsIncludeLine(l) == startswith(l, "INCLUDE") \/ IsCommentedInclude(l)

\* the RESTART lines that rule 2 generated
InsertedRestarts ==
    { k \in 1..Len(new_data) : origin[k] = 0 /\ new_data[k] = RestartLine }

\* C13: a RESTART block is generated only while a line is processed that
\* begins with INCLUDE or is a commented INCLUDE and lies in a SOLUTION
\* section; a SOLUTION section without such a line gets none.
C13_InsertOnlyAtInclude ==
    \A k \in InsertedRestarts :
        /\ LineAfter(k) /= 0
        /\ IsIncludeLine(deck[LineAfter(k)])
        /\ InSection(LineAfter(k), "SOLUTION")

\* a RESTART block was inserted, and a SOLUTION section that follows INCLUDE
\* lines of an earlier section and has no INCLUDE line of its own got none
C13_Witness ==
    /\ pc = "returned"
    /\ InsertedRestarts /= {}
    /\ \E s \in 1..Len(deck) :
          /\ startswith(deck[s], "SOLUTION")
          /\ \E j \in 1..(s - 1) : IsIncludeLine(deck[j])
          /\ \A j \in SectionOf(s) : ~IsIncludeLine(deck[j])
          /\ \E j \in SectionOf(s) : j > s

\* ------------------------------------------------------------------ C14
\* a step of the loop whose current line begins with kw
ScanStep == pc = "scan" /\ pc' = "scan"
LineStep(kw) == ScanStep /\ pos <= Len(deck) /\ startswith(deck[pos], kw)

\* C14 as stated: after a line beginning with SOLUTION or SCHEDULE was
\* processed all five presence flags are clear; SUMMARY clears none.
C14_FlagReset_Stated ==
    /\ [][(LineStep("SOLUTION") \/ LineStep("SCHEDULE")) =>
            (/\ ~found_restart' /\ ~found_include'
             /\ ~found_commented_include' /\ ~restart_updated'
             /\ ~found_skiprest')]_vars
    /\ [][LineStep("SUMMARY") =>
            <<found_restart, found_include, found_commented_include,
              restart_updated, found_skiprest>>'
            = <<found_restart, found_include, found_commented_include,
                restart_updated, found_skiprest>>]_vars

\* C14 (amended): after a line beginning with SOLUTION was processed as the
\* current line of the loop, found_restart, found_include,
\* found_commented_include and restart_updated are clear and found_skiprest
\* is as before; after one beginning with SCHEDULE, found_skiprest,
\* found_include and found_commented_include are clear and found_restart and
\* restart_updated are as before; SUMMARY changes none of the five.
C14_FlagReset ==
    /\ [][LineStep("SOLUTION") =>
            (/\ ~found_restart' /\ ~found_include'
             /\ ~found_commented_include' /\ ~restart_updated'
             /\ found_skiprest' = found_skiprest)]_vars
    /\ [][LineStep("SCHEDULE") =>
            (/\ ~found_skiprest' /\ ~found_include'
             /\ ~found_commented_include'
             /\ found_restart' = found_restart
             /\ restart_updated' = restart_updated)]_vars
    /\ [][LineStep("SUMMARY") =>
            <<found_restart, found_include, found_commented_include,
              restart_updated, found_skiprest>>'
            = <<found_restart, found_include, found_commented_include,
                restart_updated, found_skiprest>>]_vars

\* a SCHEDULE line was processed with found_restart set, after an earlier
\* SCHEDULE section in which SKIPREST was inserted
C14_Witness ==
    /\ pc = "scan" /\ pos > 2
    /\ startswith(deck[pos - 1], "SCHEDULE")
    /\ found_restart /\ restart_updated
    /\ ~found_skiprest /\ ~found_include
    /\ \E k \in 1..Len(new_data) : new_data[k] = SkiprestElem

\* ------------------------------------------------------------------ C15
\* a step of the loop in which rule fired and a lookahead line was there
LookaheadStep(rule) ==
    ScanStep /\ pos < Len(deck) /\ rule \in fired' /\ new_data' /= new_data

\* C15: the lookahead line of Update RESTART is discarded and that of
\* Comment INCLUDE is emitted once with the prefix "--"; neither changes
\* the section context or a flag, whatever it begins with; the scan goes on
\* with the line after it, and every input line is consumed exactly once.
C15_LookaheadNotEvaluated ==
    /\ [][LookaheadStep("update_restart") =>
            (/\ pos' = pos + 2
             /\ in_solution' = in_solution /\ in_schedule' = in_schedule
             /\ found_include' = found_include
             /\ found_commented_include' = found_commented_include
             /\ found_skiprest' = found_skiprest
             /\ found_restart' /\ restart_updated'
             /\ new_data' = new_data
                    \o <<deck[pos], ParamLine(basename, id)>>
             /\ origin' = origin \o <<pos, pos + 1>>)]_vars
    /\ [][LookaheadStep("comment_include") =>
            (/\ pos' = pos + 2
             /\ in_solution' = in_solution /\ in_schedule' = in_schedule
             /\ found_include' /\ found_commented_include'
             /\ found_restart' /\ restart_updated'
             /\ found_skiprest' = (found_skiprest \/ in_schedule)
             /\ new_data'[Len(new_data')] = <<DASHES>> \o deck[pos + 1]
             /\ origin'[Len(origin')] = pos + 1
             /\ Cardinality({ k \in 1..Len(origin') :
                                origin'[k] = pos + 1 }) = 1)]_vars
    /\ [](pc = "returned" =>
            InputOrigins(origin) = [m \in 1..Len(deck) |-> m])

\* the lookahead line of Comment INCLUDE began with SCHEDULE: it was emitted
\* with the prefix and the scan is still in SOLUTION and not in SCHEDULE
C15_Witness ==
    /\ pc = "scan" /\ pos > 2
    /\ "comment_include" \in fired
    /\ startswith(deck[pos - 1], "SCHEDULE")
    /\ in_solution /\ ~in_schedule
    /\ new_data[Len(new_data)] = <<DASHES>> \o deck[pos - 1]

\* ------------------------------------------------------------------ C16
\* the content of the deck file when update_data_file opens it
ContentRead == IF restore THEN File(bak0.text) ELSE data0

\* C16: between the return of the resolver and the return of the rewriter no
\* file is changed; then, only with --backup, the deck file is moved to the
\* backup file; last the output is written: in the end the backup file holds
\* the content the rewriter read and the deck file the rewriter's output.
C16_FileOperationOrder ==
    /\ pc \in {"open", "scan", "returned"} =>
          (data = ContentRead /\ bak = bak0 /\ id \in CompanionIds)
    /\ pc = "write" =>
          (backup /\ ~data.ex /\ bak = ContentRead
             /\ Concat(deck) = ContentRead.text)
    /\ pc = "done" =>
          /\ data = File(Concat(new_data))
          /\ Concat(deck) = ContentRead.text
          /\ IF backup THEN bak = ContentRead ELSE bak = bak0

\* a run with --backup has ended; the deck file was rewritten
C16_Witness ==
    /\ pc = "done" /\ backup /\ ~restore
    /\ bak = data0 /\ bak /= bak0
    /\ data /= data0

\* ------------------------------------------------------------------ C17
InsertOrUpdate == {"insert_restart", "update_restart"}

\* a RESTART line has just been met while found_restart was set: it is the
\* last element of the output and no rule touched it
FurtherRestartMet ==
    /\ pc = "scan" /\ pos > 1 /\ pos <= Len(deck)
    /\ startswith(deck[pos - 1], "RESTART")
    /\ found_restart /\ fired \cap InsertOrUpdate = {}
    /\ Len(new_data) > 0
    /\ new_data[Len(new_data)] = deck[pos - 1]
    /\ origin[Len(origin)] = pos - 1

\* the line at pos is emitted as it is by the next step
EmittedUnchanged ==
    \E k \in (Len(new_data) + 1)..Len(new_data') :
        new_data'[k] = deck[pos] /\ origin'[k] = pos

\* the Comment INCLUDE rule applies to the line at pos
IncludeToComment ==
    /\ startswith(deck[pos], "INCLUDE")
    /\ in_solution /\ ~startswith(deck[pos], "SCHEDULE")

\* found_restart and restart_updated are equal after every line; a RESTART
\* directive is inserted or updated only while found_restart is clear, never
\* both on one line, and found_restart is cleared by a SOLUTION line only; a
\* RESTART line met while found_restart is set is emitted as it is and does
\* not consume the line after it.
OneTouchPerScope ==
    /\ [](found_restart = restart_updated)
    /\ [](~(InsertOrUpdate \subseteq fired))
    /\ [][(ScanStep /\ fired' \cap InsertOrUpdate /= {}) =>
            (~found_restart /\ found_restart')]_vars
    /\ [][(ScanStep /\ found_restart /\ ~found_restart') =>
            startswith(deck[pos], "SOLUTION")]_vars
    /\ [][(LineStep("RESTART") /\ found_restart) =>
            (/\ fired' \cap InsertOrUpdate = {}
             /\ pos' = pos + 1
             /\ new_data' = Append(new_data, deck[pos]))]_vars

\* C17 as stated: one RESTART directive is touched per scope, and the line
\* after every further RESTART line of the scope is emitted unchanged.
C17_OneRestartPerScope_Stated ==
    /\ OneTouchPerScope
    /\ [][(FurtherRestartMet /\ ScanStep) => EmittedUnchanged]_vars

\* C17: one RESTART directive is touched per scope, and the line after every
\* further RESTART line of the scope is emitted unchanged unless it is an
\* INCLUDE line inside SOLUTION, which the Comment INCLUDE rule prefixes with
\* "--" when no INCLUDE of the section was commented before.
C17_OneRestartPerScope ==
    /\ OneTouchPerScope
    /\ [][(FurtherRestartMet /\ ScanStep /\ ~IncludeToComment)
            => EmittedUnchanged]_vars
    /\ [][(FurtherRestartMet /\ ScanStep /\ IncludeToComment)
            => (EmittedUnchanged \/
                 (~found_commented_include /\ "comment_include" \in fired'))]_vars

\* two RESTART directives in one scope: the first was updated, the second
\* kept its parameter line
C17_Witness ==
    /\ pc = "returned"
    /\ \E i \in 1..Len(deck) : \E j \in (i + 2)..(Len(deck) - 1) :
          /\ startswith(deck[i], "RESTART") /\ startswith(deck[j], "RESTART")
          /\ \A h \in i..j : ~startswith(deck[h], "SOLUTION")
          /\ OutIdxs(i + 1) /= {} /\ OutIdxs(j + 1) /= {}
          /\ new_data[OutIdx(i + 1)] = ParamLine(basename, id)
          /\ deck[j + 1] = ParamLine(CaseC, OldId)
          /\ new_data[OutIdx(j + 1)] = deck[j + 1]

\* ------------------------------------------------------------------ C18
\* C18: at the start of every line in_solution and found_include imply
\* found_commented_include; Update RESTART fires on the same line neither
\* with Comment INCLUDE nor with Insert RESTART, and no generated parameter
\* line is emitted with the prefix "--".
C18_RulesExclusive ==
    /\ (in_solution /\ found_include) => found_commented_include
    /\ ~({"update_restart", "comment_include"} \subseteq fired)
    /\ ~({"update_restart", "insert_restart"} \subseteq fired)
    /\ ("update_restart" \in fired /\ pc = "scan") =>
          new_data[Len(new_data)] = ParamLine(basename, id)
    /\ \A k \in 1..Len(new_data) :
          new_data[k] = <<DASHES>> \o ParamLine(basename, id) =>
              (origin[k] /= 0 /\ deck[origin[k]] = ParamLine(basename, id))

\* in one SOLUTION section a RESTART directive was updated and an INCLUDE
\* block commented, on different lines
C18_Witness ==
    /\ pc = "returned" /\ in_solution
    /\ \E i \in 1..Len(deck) : \E j \in 1..Len(deck) :
          /\ startswith(deck[i], "RESTART")
          /\ startswith(deck[j], "INCLUDE")
          /\ SecStart(i) = SecStart(j)
          /\ i < Len(deck) /\ OutIdxs(i + 1) /= {} /\ OutIdxs(j) /= {}
          /\ origin[OutIdx(i + 1) - 1] = i
          /\ new_data[OutIdx(i + 1)] = ParamLine(basename, id)
          /\ new_data[OutIdx(j)] = <<DASHES>> \o deck[j]

=============================================================================
